---- MODULE Spec2Model ----
(***************************************************************************)
(* Model of the IFlow content extraction and security-compliance analysis  *)
(* of SAPConnection (backend/app/services/sap_tools.py).                    *)
(*                                                                         *)
(* Two specifications share the operators below:                           *)
(*   SpecSec  check_security_compliance(content, properties), applied      *)
(*            stage by stage to inputs drawn from bounded sets;            *)
(*   Spec     get_iflow_content(path): dispatch, unpacking, per-file       *)
(*            processing, integrate_security_check, cleanup, return.       *)
(*                                                                         *)
(* A file's text is represented by what the code's regular expressions and *)
(* element-tree queries read from it:                                      *)
(*   wellFormed  ET.fromstring(content) succeeds                           *)
(*   sites       the authenticationMethod declarations, in document order  *)
(*   url         the text matches (http[s]?://|endpoint|url|uri)           *)
(*   kw          keyword families present in the text besides the          *)
(*               declared values                                           *)
(***************************************************************************)
EXTENDS Integers, Sequences, FiniteSets, TLC

\* ------------------------------------------------------------------ bounds
MaxSites == 2
MaxProps == 1
MaxEntries == 2
MaxJobs == 2

\* the progress values the callback of a review reports
ProgressValues == {50}

\* ------------------------------------------------------------- text domain
NoParam == ""
NoValue == ""

\* Forms an authenticationMethod declaration takes in a file:
\*   kv        <property><key>authenticationMethod</key><value>V</value>
\*             outside any message flow
\*   attr      authenticationMethod="V" as an attribute
\*   flowkv    <ifl:property><key>authenticationMethod</key><value>V</value>
\*             inside a message flow
\*   flowonly  a message-flow property only the element tree yields: key and
\*             value as attributes of the flow, or ifl:key / ifl:value children
Forms == {"kv", "attr", "flowkv", "flowonly"}

SiteValues == {"Basic", "OAuth 2.0", "{{AUTH_METHOD}}"}
PropKeys == {"AUTH_METHOD", "S4_AUTH_METHOD", "auth_type"}
PropValues == {"Basic", "OAuth 2.0"}
KeywordFamilies == {"basic", "oauth", "cert"}
\* the families a text holds apart from its declarations
KeywordSets == {{}, {"basic"}, {"cert"}, {"basic", "oauth"}}

\* str.lower() on the strings of the domain
Lower(s) ==
    CASE s = "Basic" -> "basic"
      [] s = "Basic Authentication" -> "basic authentication"
      [] s = "OAuth 2.0" -> "oauth 2.0"
      [] s = "Client Certificate" -> "client certificate"
      [] s = "AUTH_METHOD" -> "auth_method"
      [] s = "S4_AUTH_METHOD" -> "s4_auth_method"
      [] s = "{{AUTH_METHOD}}" -> "{{auth_method}}"
      [] s = "S4HANA_authenticationMethod_16" -> "s4hana_authenticationmethod_16"
      [] OTHER -> s

\* value.startswith("{{") and value.endswith("}}")
IsPlaceholder(v) == v \in {"{{AUTH_METHOD}}"}

\* the group captured by \{\{([^}]+)\}\}, i.e. value[2:-2].strip()
ParamName(v) == CASE v = "{{AUTH_METHOD}}" -> "AUTH_METHOD" [] OTHER -> NoParam

\* prop_key.endswith(f"_{param_name}")
EndsWithUnderscoreParam(key, param) ==
    \/ key = "S4_AUTH_METHOD" /\ param = "AUTH_METHOD"

\* "oauth" in value.lower(), "certificate" in value.lower()
ContainsOAuth(v) == Lower(v) \in {"oauth 2.0"}
ContainsCertificate(v) == Lower(v) \in {"client certificate"}

\* "authenticationMethod" in key.lower(): the strings of the domain that
\* hold the needle, upper-case M included, tested against the lower-cased key
KeyLowerContainsAuthenticationMethod(key) ==
    Lower(key) \in {"S4HANA_authenticationMethod_16"}

\* "auth_type" in key.lower()
KeyLowerContainsAuthType(key) == Lower(key) \in {"auth_type"}

\* method.lower() in ["basic", "basic authentication"]
IsBasicValue(v) == Lower(v) \in {"basic", "basic authentication"}

\* ------------------------------------------------------------ regex tables
\* auth_patterns (six) and param_auth_patterns (five), by index, and the
\* forms whose text each one matches; the authMethod spellings (patterns 3
\* and 6, parameterized 3 and 5) match none of the forms above
NumAuthPatterns == 6
NumParamAuthPatterns == 5

AuthPatternMatches(p, form) ==
    \/ p \in {1, 2} /\ form \in {"kv", "flowkv"}
    \/ p = 4 /\ form = "kv"
    \/ p = 5 /\ form = "attr"

ParamAuthPatternMatches(p, form) ==
    \/ p \in {1, 2} /\ form \in {"kv", "flowkv"}
    \/ p = 4 /\ form = "attr"

\* -------------------------------------------------------- result entries
Method(v) == [value |-> v, from |-> NoParam]
MethodFrom(v, p) == [value |-> v, from |-> p]
Issue(k, p, v) == [kind |-> k, param |-> p, value |-> v]
Detail(k, p) == [kind |-> k, param |-> p]

InSeq(x, s) == \E i \in 1..Len(s) : s[i] = x

\* list(set(xs)): the elements once each
RECURSIVE Dedupe(_)
Dedupe(s) ==
    IF s = <<>> THEN <<>>
    ELSE LET rest == Dedupe(Tail(s))
         IN IF InSeq(Head(s), rest) THEN rest ELSE <<Head(s)>> \o rest


\* ----------------------------------------------------------------- inputs
Site(f, v) == [form |-> f, value |-> v]
Sites == {Site(f, v) : f \in Forms, v \in SiteValues}

SeqsUpTo(S, n) == UNION {[1..k -> S] : k \in 0..n}

Contents ==
    {[wellFormed |-> w, sites |-> ss, url |-> u, kw |-> k] :
        w \in BOOLEAN, ss \in SeqsUpTo(Sites, MaxSites), u \in BOOLEAN,
        k \in KeywordSets}

\* a dict in insertion order: pairs <<key, value>> with distinct keys
PropertyMaps ==
    {ps \in SeqsUpTo(PropKeys \X PropValues, MaxProps) :
        \A i, j \in 1..Len(ps) : i # j => ps[i][1] # ps[j][1]}

\* keyword families the text holds: those of the declared values and content.kw
ValueKeywords(v) ==
    (IF ContainsOAuth(v) THEN {"oauth"} ELSE {})
    \cup (IF ContainsCertificate(v) THEN {"cert"} ELSE {})
    \cup (IF Lower(v) = "basic authentication" THEN {"basic"} ELSE {})

TextKeywords(c) ==
    c.kw \cup UNION {ValueKeywords(c.sites[i].value) : i \in 1..Len(c.sites)}

\* ------------------------------------------- check_security_compliance
NewSecurityResult ==
    [detected_methods |-> <<>>, is_compliant |-> TRUE,
     issues |-> <<>>, details |-> <<>>]

AddMethodIfAbsent(r, probe, entry) ==
    IF InSeq(Method(probe), r.detected_methods) THEN r
    ELSE [r EXCEPT !.detected_methods = Append(@, entry)]

FlagBasic(r, issue) ==
    [r EXCEPT !.is_compliant = FALSE, !.issues = Append(@, issue)]

\* findall results of every pattern in turn, each in document order
RECURSIVE DirectMatches(_, _)
DirectMatches(p, sites) ==
    IF p > NumAuthPatterns THEN <<>>
    ELSE LET hit == SelectSeq(sites, LAMBDA s : AuthPatternMatches(p, s.form))
         IN [i \in 1..Len(hit) |-> hit[i].value] \o DirectMatches(p + 1, sites)

RECURSIVE ParamMatches(_, _)
ParamMatches(p, sites) ==
    IF p > NumParamAuthPatterns THEN <<>>
    ELSE LET hit == SelectSeq(sites, LAMBDA s :
                        ParamAuthPatternMatches(p, s.form) /\ IsPlaceholder(s.value))
         IN [i \in 1..Len(hit) |-> ParamName(hit[i].value)]
            \o ParamMatches(p + 1, sites)

\* first entry of the dict whose key equals the name, ends with _name, or
\* equals it ignoring case
RECURSIVE ResolveParameter(_, _)
ResolveParameter(props, param) ==
    IF props = <<>> THEN NoValue
    ELSE LET key == Head(props)[1]
         IN IF \/ key = param
               \/ EndsWithUnderscoreParam(key, param)
               \/ Lower(key) = Lower(param)
            THEN Head(props)[2]
            ELSE ResolveParameter(Tail(props), param)

\* variant: the comparison without .lower()
DirectMethodStepCaseSensitive(r, method, kind) ==
    IF method = NoValue THEN r
    ELSE LET r1 == AddMethodIfAbsent(r, method, Method(method))
         IN IF method \in {"basic", "basic authentication"}
            THEN FlagBasic(r1, Issue(kind, NoParam, method))
            ELSE r1

DirectMethodStep(r, method, kind) ==
    IF method = NoValue THEN r
    ELSE LET r1 == AddMethodIfAbsent(r, method, Method(method))
         IN IF IsBasicValue(method)
            THEN FlagBasic(r1, Issue(kind, NoParam, method))
            ELSE r1

\* variant: an unresolved parameter treated as a violation
UnresolvedStepAsViolation(r, param, kind) ==
    FlagBasic([r EXCEPT !.details = Append(@, Detail(kind, param))],
              Issue(kind, param, NoValue))

UnresolvedStep(r, param, kind) ==
    [r EXCEPT !.details = Append(@, Detail(kind, param))]

\* variant: the resolved value is listed but never compared with Basic
ParamMethodStepUnflagged(r, param, props, found, basic, unresolved) ==
    LET r0 == [r EXCEPT !.details = Append(@, Detail(found, param))]
        resolved == ResolveParameter(props, param)
    IN IF resolved # NoValue
       THEN AddMethodIfAbsent(r0, resolved, MethodFrom(resolved, param))
       ELSE UnresolvedStep(r0, param, unresolved)

ParamMethodStep(r, param, props, found, basic, unresolved) ==
    LET r0 == [r EXCEPT !.details = Append(@, Detail(found, param))]
        resolved == ResolveParameter(props, param)
    IN IF resolved # NoValue
       THEN LET r1 == AddMethodIfAbsent(r0, resolved, MethodFrom(resolved, param))
            IN IF IsBasicValue(resolved)
               THEN FlagBasic(r1, Issue(basic, param, resolved))
               ELSE r1
       ELSE UnresolvedStep(r0, param, unresolved)

RECURSIVE ScanDirect(_, _)
ScanDirect(r, ms) ==
    IF ms = <<>> THEN r
    ELSE ScanDirect(DirectMethodStep(r, Head(ms), "DirectBasic"), Tail(ms))

RECURSIVE ScanParams(_, _, _)
ScanParams(r, ps, props) ==
    IF ps = <<>> THEN r
    ELSE ScanParams(ParamMethodStep(r, Head(ps), props, "FoundParam",
                                    "ParamBasic", "Unresolved"),
                    Tail(ps), props)

StageDirect(r, c) == ScanDirect(r, DirectMatches(1, c.sites))

StageParams(r, c, props) == ScanParams(r, ParamMatches(1, c.sites), props)

\* the message flows root.findall yields; both prefixes of the namespace
\* sets name the same URI, so the first set finds every flow and ends the loop
MessageFlows(c) == SelectSeq(c.sites, LAMBDA s : s.form \in {"flowkv", "flowonly"})

FlowStep(r, value, props) ==
    IF ~IsPlaceholder(value)
    THEN DirectMethodStep(r, value, "FlowDirectBasic")
    ELSE ParamMethodStep(r, ParamName(value), props, "FlowFoundParam",
                         "FlowParamBasic", "FlowUnresolved")

RECURSIVE WalkFlows(_, _, _)
WalkFlows(r, flows, props) ==
    IF flows = <<>> THEN r
    ELSE WalkFlows(FlowStep(r, Head(flows).value, props), Tail(flows), props)

StageFlows(r, c, props) ==
    IF c.wellFormed
    THEN WalkFlows(r, MessageFlows(c), props)
    ELSE [r EXCEPT !.details = Append(@, Detail("XmlParseError", NoParam))]

\* variant: the keyword checks without the test of detected_methods
StageFallbackUnguarded(r, c) ==
    LET kws == TextKeywords(c)
        r1 == IF "basic" \in kws
              THEN FlagBasic(
                     [r EXCEPT !.detected_methods =
                         Append(@, Method("Basic Authentication (pattern match)"))],
                     Issue("PatternBasic", NoParam, NoValue))
              ELSE r
        r2 == IF "oauth" \in kws
              THEN [r1 EXCEPT !.detected_methods =
                       Append(@, Method("OAuth (pattern match)"))]
              ELSE r1
    IN IF "cert" \in kws
       THEN [r2 EXCEPT !.detected_methods =
                Append(@, Method("Certificate (pattern match)"))]
       ELSE r2

\* the fallback pattern checks: `if not result["detected_methods"]`, then the
\* Basic, OAuth and certificate pattern lists
StageFallback(r, c) ==
    IF r.detected_methods # <<>> THEN r
    ELSE LET kws == TextKeywords(c)
             r1 == IF "basic" \in kws
                   THEN FlagBasic(
                          [r EXCEPT !.detected_methods =
                              Append(@, Method("Basic Authentication (pattern match)"))],
                          Issue("PatternBasic", NoParam, NoValue))
                   ELSE r
             r2 == IF "oauth" \in kws
                   THEN [r1 EXCEPT !.detected_methods =
                            Append(@, Method("OAuth (pattern match)"))]
                   ELSE r1
         IN IF "cert" \in kws
            THEN [r2 EXCEPT !.detected_methods =
                     Append(@, Method("Certificate (pattern match)"))]
            ELSE r2

PropertyStep(r, key, value) ==
    LET r1 == IF KeyLowerContainsAuthenticationMethod(key) /\ ContainsCertificate(value)
              THEN [r EXCEPT !.detected_methods =
                       Append(@, Method("Certificate (from property)"))]
              ELSE r
    IN IF /\ KeyLowerContainsAuthenticationMethod(key) \/ KeyLowerContainsAuthType(key)
          /\ ContainsOAuth(value)
       THEN [r1 EXCEPT !.detected_methods =
                Append(@, Method("OAuth (from property)"))]
       ELSE r1

RECURSIVE StageProperties(_, _)
StageProperties(r, props) ==
    IF props = <<>> THEN r
    ELSE StageProperties(PropertyStep(r, Head(props)[1], Head(props)[2]), Tail(props))

StageDedupe(r) ==
    [r EXCEPT !.detected_methods = Dedupe(@), !.issues = Dedupe(@),
              !.details = Dedupe(@)]

\* variant: the external-call test without the detected_methods test
FinalPolicyIgnoringMethods(r, c) ==
    IF c.url
    THEN [r EXCEPT !.details = Append(@, Detail("ExternalNoAuth", NoParam)),
                   !.issues = Append(@, Issue("MissingAuth", NoParam, NoValue)),
                   !.is_compliant = FALSE]
    ELSE r

FinalPolicy(r, c) ==
    IF r.detected_methods = <<>> /\ c.url
    THEN [r EXCEPT !.details = Append(@, Detail("ExternalNoAuth", NoParam)),
                   !.issues = Append(@, Issue("MissingAuth", NoParam, NoValue)),
                   !.is_compliant = FALSE]
    ELSE r

StageFinal(r, c) == FinalPolicy(StageDedupe(r), c)

CheckSecurityCompliance(c, props) ==
    StageFinal(
      StageProperties(
        StageFallback(
          StageFlows(
            StageParams(StageDirect(NewSecurityResult, c), c, props),
            c, props),
          c),
        props),
      c)


\* --------------------------------------------------- files and artifacts
NoError == ""
NoFile == <<>>
NoPath == ""

\* a participant element: its name, the attribute that states its type
\* ("type", the namespaced "ifl:type", or none) with the value, the value of a
\* type / participantType / role property, and whether it has an address or
\* url property
Participant(n, a, av, tp, e) ==
    [name |-> n, attr |-> a, attrValue |-> av, typeProp |-> tp, endpoint |-> e]

\* 'sender' in participant_type.lower()
TypeNamesSender(v) == v \in {"EndpointSender", "sender"}

\* 'receiver' in participant_type.lower() or 'recevier' in ...
TypeNamesReceiver(v) == v \in {"EndpointRecevier", "EndpointReceiver", "receiver"}

\* any(s in name.lower() for s in ['sender', 'source', 'from'])
NameSuggestsSender(n) == n \in {"Sender", "Sender_System"}

\* any(s in name.lower() for s in ['receiver', 'target', 'to', 'destination'])
NameSuggestsReceiver(n) == n \in {"Receiver"}

\* attr in participant.attrib for attr in ['ifl:type', 'type']: the element
\* tree keys a namespaced attribute as '{uri}type', so only the plain
\* attribute is found
AttributeType(p) == IF p.attr = "type" THEN p.attrValue ELSE NoValue

\* the type attribute, else the type property
ParticipantType(p) ==
    IF AttributeType(p) # NoValue THEN AttributeType(p) ELSE p.typeProp

\* the list a participant is appended to: "senders", "receivers" or "none"
ClassifyParticipant(p) ==
    IF ParticipantType(p) # NoValue
    THEN IF TypeNamesSender(ParticipantType(p)) THEN "senders"
         ELSE IF TypeNamesReceiver(ParticipantType(p)) THEN "receivers"
         ELSE "none"
    ELSE IF p.endpoint
         THEN IF NameSuggestsSender(p.name) THEN "senders"
              ELSE IF NameSuggestsReceiver(p.name) THEN "receivers"
              ELSE "none"
         ELSE "none"

\* the names _extract_participants appends to result[list]
ParticipantsIn(list, ps) ==
    LET hit == SelectSeq(ps, LAMBDA p : ClassifyParticipant(p) = list)
    IN [i \in 1..Len(hit) |-> hit[i].name]

\* what the element-tree extractors find in a parsed file
NoStructure ==
    [workflow |-> <<>>, key_steps |-> <<>>, adapters |-> <<>>,
     participants |-> <<>>, mappings |-> <<>>,
     parameters |-> <<>>, connections |-> <<>>,
     errorSubprocess |-> FALSE, errorActivityType |-> FALSE,
     errorHandlers |-> FALSE]

FullStructure ==
    [workflow |-> <<"Process">>, key_steps |-> <<"Task">>,
     adapters |-> <<"HTTPS">>,
     participants |->
        <<Participant("Sender", "type", "EndpointSender", NoValue, FALSE),
          Participant("Sender_System", "ifl:type", "EndpointRecevier", NoValue, TRUE),
          Participant("Receiver", "none", NoValue, "receiver", TRUE)>>,
     mappings |-> <<"Mapping">>,
     parameters |-> <<"property">>, connections |-> <<"Flow">>,
     errorSubprocess |-> TRUE, errorActivityType |-> FALSE,
     errorHandlers |-> FALSE]

\* the same elements, the sub-process holding no errorEventDefinition but an
\* activityType property with "error" in its value
ActivityTypeStructure ==
    [FullStructure EXCEPT !.errorSubprocess = FALSE, !.errorActivityType = TRUE]

\* the same elements, no sub-process indicator but an errorHandler element
HandlerStructure ==
    [FullStructure EXCEPT !.errorSubprocess = FALSE, !.errorHandlers = TRUE]

\* what the regular expressions of _extract_with_regex find in a text
NoRegexFinds ==
    [name |-> "", senders |-> <<>>, receivers |-> <<>>, adapters |-> <<>>,
     mappings |-> <<>>, errorHandlingTag |-> FALSE,
     deadLetterQueue |-> FALSE, subProcessErrorEvent |-> FALSE]

NameOnly == [NoRegexFinds EXCEPT !.name = "Flow"]

LooseTags ==
    [name |-> "Broken", senders |-> <<"HTTPS">>, receivers |-> <<"SOAP">>,
     adapters |-> <<"SFTP">>, mappings |-> <<"xslt">>,
     errorHandlingTag |-> TRUE, deadLetterQueue |-> FALSE,
     subProcessErrorEvent |-> FALSE]

Text(w, ss, u, k, x, r) ==
    [wellFormed |-> w, sites |-> ss, url |-> u, kw |-> k, xml |-> x, rx |-> r]

TextBasicFlow ==
    Text(TRUE, <<Site("flowkv", "Basic")>>, TRUE, {}, FullStructure, NameOnly)
TextOAuthFlow ==
    Text(TRUE, <<Site("flowkv", "OAuth 2.0")>>, TRUE, {}, ActivityTypeStructure,
         NameOnly)
TextParameterized ==
    Text(TRUE, <<Site("kv", "{{AUTH_METHOD}}")>>, FALSE, {}, NoStructure, NoRegexFinds)
TextNoAuth ==
    Text(TRUE, <<>>, TRUE, {}, HandlerStructure, NameOnly)
TextMalformed ==
    Text(FALSE, <<>>, FALSE, {}, NoStructure, LooseTags)

DefinitionTexts ==
    {TextBasicFlow, TextOAuthFlow, TextParameterized, TextNoAuth, TextMalformed}

NoText == Text(FALSE, <<>>, FALSE, {}, NoStructure, NoRegexFinds)

\* the argument of check_security_compliance is the text alone
SecurityView(t) ==
    [wellFormed |-> t.wellFormed, sites |-> t.sites, url |-> t.url, kw |-> t.kw]

\* a property file: its key=value lines
PropertyTexts ==
    {<< <<"AUTH_METHOD", "Basic">> >>, << <<"AUTH_METHOD", "Client Certificate">> >>}

Entry(n, t, l) == [name |-> n, text |-> t, lines |-> l]

Entries ==
    {Entry("a.iflw", t, <<>>) :
        t \in {TextBasicFlow, TextOAuthFlow, TextParameterized, TextMalformed}}
    \cup {Entry("b.iflw", t, <<>>) :
            t \in {TextOAuthFlow, TextParameterized, TextMalformed}}
    \cup {Entry("c.xml", t, <<>>) : t \in {TextNoAuth, TextMalformed}}
    \cup {Entry("parameters.prop", NoText, l) : l \in PropertyTexts}
    \cup {Entry("logo.png", NoText, <<>>)}

Archives ==
    {es \in SeqsUpTo(Entries, MaxEntries) :
        \A i, j \in 1..Len(es) : i # j => es[i].name # es[j].name}

\* the file at a path: whether it exists, its extension, what its bytes are
\* (a ZIP, a truncated ZIP, a text with or without an XML marker in its
\* header), and the parameters.prop in its directory, if any
File(e, x, b, es, t, sib) ==
    [exists |-> e, ext |-> x, body |-> b, entries |-> es, text |-> t,
     sibling |-> sib]

Artifacts ==
    {File(FALSE, ".zip", "zip", <<>>, NoText, NoFile)}
    \cup {File(TRUE, x, "zip", es, NoText, NoFile) :
            x \in {".zip", ""}, es \in Archives}
    \cup {File(TRUE, x, "badzip", <<>>, NoText, NoFile) : x \in {".zip", ""}}
    \cup {File(TRUE, x, b, <<>>, t, sib) :
            x \in {".zip", ".xml", ".iflw", ""}, b \in {"xml", "text"},
            t \in DefinitionTexts,
            sib \in {NoFile, << <<"AUTH_METHOD", "Basic">> >>}}

\* any(pattern in file for pattern in known_patterns)
ShouldExtract(name) == name \in {"a.iflw", "b.iflw", "c.xml", "parameters.prop"}

EndsWithIflw(name) == name \in {"a.iflw", "b.iflw"}
EndsWithXml(name) == name = "c.xml"
EndsWithZip(ext) == ext = ".zip"

\* '<IntegrationFlow', '<ifl:', '<bpmn2:' or '<bpmn:' in the first 1000
\* characters: the texts with BPMN structure carry the prefixes
HasIflowMarkers(t) == t.xml # NoStructure

\* '<' and '>' in the first 100 characters
LooksLikeMarkup(e) == e.name # "parameters.prop"


\* ------------------------------------------------------- result record
\* _initialize_result_structure, on a connection whose current_iflow_id
\* and current_iflow_name are id and name (NoValue: None)
InitializeResultStructure(id, name) ==
    [kind |-> "result",
     iflow_id |-> IF id # NoValue THEN id ELSE "unknown",
     iflow_name |-> IF name # NoValue THEN name ELSE "Unknown IFlow",
     workflow |-> <<>>, key_steps |-> <<>>, adapters_used |-> <<>>,
     senders |-> <<>>, receivers |-> <<>>, mapping_entities |-> <<>>,
     parameters |-> <<>>, error_handling |-> <<>>,
     security |-> <<>>, security_compliant |-> FALSE,
     security_issues |-> <<>>, security_details |-> <<>>,
     connection_details |-> <<>>, project_files |-> <<>>,
     has_proper_error_handling |-> FALSE, processing_errors |-> <<>>,
     error |-> NoError, processing_error |-> NoError]

\* json.dumps({"error": error_msg, ...})
ErrorRecord(msg) == [kind |-> "error", error |-> msg]

NotReturned == [kind |-> "none"]

RECURSIVE AppendAbsent(_, _)
AppendAbsent(list, xs) ==
    IF xs = <<>> THEN list
    ELSE AppendAbsent(IF InSeq(Head(xs), list) THEN list ELSE Append(list, Head(xs)),
                      Tail(xs))

\* _extract_error_handling
ExtractErrorHandling(res, x) ==
    LET has_error_handling ==
            x.errorSubprocess \/ x.errorActivityType \/ x.errorHandlers
        found ==
            res.error_handling
            \o (IF x.errorSubprocess
                THEN <<"Handles errors with error start and end events">> ELSE <<>>)
            \o (IF x.errorActivityType THEN <<"Error handling subprocess">> ELSE <<>>)
            \o (IF x.errorHandlers THEN <<"errorHandler configured">> ELSE <<>>)
        summary ==
            IF has_error_handling /\ found = <<>>
            THEN <<"Error handling properly configured with error subprocesses">>
            ELSE IF found # <<>>
                 THEN IF ~has_error_handling
                      THEN <<"Basic error handling elements found but no proper error subprocesses">>
                      ELSE <<>>
                 ELSE <<"No error handling detected">>
    IN [res EXCEPT !.has_proper_error_handling = has_error_handling,
                   !.error_handling = found \o summary]

\* _extract_workflow .. _extract_connection_details on a parsed root
ExtractStructure(res, x) ==
    ExtractErrorHandling(
        [res EXCEPT !.workflow = @ \o x.workflow,
                    !.key_steps = @ \o x.key_steps,
                    !.adapters_used = AppendAbsent(@, x.adapters),
                    !.senders = @ \o ParticipantsIn("senders", x.participants),
                    !.receivers = @ \o ParticipantsIn("receivers", x.participants),
                    !.mapping_entities = @ \o x.mappings,
                    !.parameters = @ \o x.parameters,
                    !.connection_details = @ \o x.connections],
        x)

\* _extract_with_regex
ExtractWithRegex(res, r) ==
    [res EXCEPT
        !.iflow_name = IF r.name # "" THEN r.name ELSE @,
        !.senders = @ \o r.senders,
        !.receivers = @ \o r.receivers,
        !.adapters_used = Dedupe(r.adapters),
        !.mapping_entities = Dedupe(r.mappings),
        !.error_handling =
            @ \o (IF r.errorHandlingTag THEN <<"Basic error handling configured">> ELSE <<>>)
              \o (IF r.deadLetterQueue THEN <<"Dead letter queue configured">> ELSE <<>>)
              \o (IF r.subProcessErrorEvent
                  THEN <<"Error handling subprocess detected">> ELSE <<>>),
        !.has_proper_error_handling = IF r.subProcessErrorEvent THEN TRUE ELSE @]

\* ------------------------------------------------ property files
\* properties[key] = value on a dict in insertion order
RECURSIVE DictSet(_, _, _)
DictSet(d, k, v) ==
    IF d = <<>> THEN << <<k, v>> >>
    ELSE IF Head(d)[1] = k THEN << <<k, v>> >> \o Tail(d)
         ELSE <<Head(d)>> \o DictSet(Tail(d), k, v)

\* extract_properties of simplified_auth_validator
RECURSIVE ExtractProperties(_)
ExtractProperties(lines) ==
    IF lines = <<>> THEN <<>>
    ELSE LET last == lines[Len(lines)]
         IN DictSet(ExtractProperties(SubSeq(lines, 1, Len(lines) - 1)),
                    last[1], last[2])

\* the methods class SAPConnection defines that the analysis calls
SAPConnectionMethods ==
    {"get_iflow_content", "_initialize_result_structure", "_process_zip_file",
     "_process_xml_file", "_process_unknown_file", "_extract_with_regex",
     "_find_iflow_definition_files", "_process_iflow_definition",
     "_extract_properties", "check_security_compliance",
     "integrate_security_check", "_display_result_summary"}

\* self.extract_properties(text): AttributeError unless the class has it
CallExtractProperties(lines) ==
    IF "extract_properties" \in SAPConnectionMethods
    THEN [raised |-> FALSE, value |-> ExtractProperties(lines)]
    ELSE [raised |-> TRUE, value |-> <<>>]

RECURSIVE DictUpdate(_, _)
DictUpdate(d, other) ==
    IF other = <<>> THEN d
    ELSE DictUpdate(DictSet(d, Head(other)[1], Head(other)[2]), Tail(other))

\* the property files of the ZIP at iflow_path, each read in its own try
RECURSIVE PropertiesFromZip(_, _)
PropertiesFromZip(props, files) ==
    IF files = <<>> THEN props
    ELSE LET call == CallExtractProperties(Head(files))
         IN PropertiesFromZip(
                IF call.raised THEN props ELSE DictUpdate(props, call.value),
                Tail(files))

\* a file handed to integrate_security_check: the extension of its path, the
\* property files inside it when it is a ZIP, the parameters.prop beside it
FileRef(x, zp, sib) == [ext |-> x, zipPropertyFiles |-> zp, sibling |-> sib]

\* the properties dict integrate_security_check assembles, and whether
\* "parameters.prop" was appended to project_files
LoadProperties(ref) ==
    LET fromZip == IF EndsWithZip(ref.ext)
                   THEN PropertiesFromZip(<<>>, ref.zipPropertyFiles)
                   ELSE <<>>
    IN IF fromZip # <<>> \/ ref.sibling = NoFile
       THEN [properties |-> fromZip, listed |-> FALSE]
       ELSE LET call == CallExtractProperties(ref.sibling)
            IN IF call.raised
               THEN [properties |-> fromZip, listed |-> FALSE]
               ELSE [properties |-> DictUpdate(fromZip, call.value), listed |-> TRUE]

\* integrate_security_check
IntegrateSecurityCheck(res, t, ref) ==
    LET loaded == LoadProperties(ref)
        security_check == CheckSecurityCompliance(SecurityView(t), loaded.properties)
    IN [res EXCEPT
          !.project_files = IF loaded.listed THEN Append(@, "parameters.prop") ELSE @,
          !.security = security_check.detected_methods,
          !.security_compliant = security_check.is_compliant,
          !.security_issues = security_check.issues,
          !.security_details = security_check.details]

\* namespace_sets, in the order the loop tries them
NamespaceSets == <<"bpmn2+ifl+bpmndi", "bpmn+ifl", "bare">>

\* for namespaces in namespace_sets, from the k-th on: ET.fromstring raises
\* ParseError and the loop continues, or the extractors run, success is set
\* and the loop breaks; tried lists the profiles the loop entered
RECURSIVE NamespaceLoop(_, _)
NamespaceLoop(t, k) ==
    IF k > Len(NamespaceSets)
    THEN [success |-> FALSE, tried |-> NamespaceSets]
    ELSE IF t.wellFormed
         THEN [success |-> TRUE, tried |-> SubSeq(NamespaceSets, 1, k)]
         ELSE NamespaceLoop(t, k + 1)

\* the body of _process_iflow_definition and of _process_xml_file: parse,
\* extract and check, or fall back to the regular expressions and check
ProcessText(res, name, t, ref) ==
    LET listed == [res EXCEPT !.project_files = Append(@, name)]
    IN IF NamespaceLoop(t, 1).success
       THEN IntegrateSecurityCheck(ExtractStructure(listed, t.xml), t, ref)
       ELSE IntegrateSecurityCheck(ExtractWithRegex(listed, t.rx), t, ref)

\* what a call of ProcessText did on file i (0 is the file at the path): the
\* profiles its loop entered and whether _extract_with_regex ran
Analysis(i, t) ==
    LET loop == NamespaceLoop(t, 1)
    IN [file |-> i, profiles |-> loop.tried, regex |-> ~loop.success]

\* the security_check dict computed for a file (recorded for the claims)
SecurityCheckOf(t, ref) ==
    CheckSecurityCompliance(SecurityView(t), LoadProperties(ref).properties)

\* --------------------------------------- _find_iflow_definition_files
MaxFilesToScan == 50

\* which files a pass counts against the budget, and which it selects
Counts(tier, f) ==
    CASE tier = 1 -> EndsWithIflw(f.name) \/ EndsWithXml(f.name)
      [] tier = 2 -> EndsWithXml(f.name)
      [] OTHER -> LooksLikeMarkup(f)

Selects(tier, f) ==
    CASE tier = 1 -> \/ EndsWithIflw(f.name)
                     \/ EndsWithXml(f.name) /\ HasIflowMarkers(f.text)
      [] tier = 2 -> EndsWithXml(f.name)
      [] OTHER -> LooksLikeMarkup(f)

\* one pass of os.walk over the directory, stopping at the scan budget;
\* dir lists the files written there by their position in the archive
RECURSIVE ScanFiles(_, _, _, _)
ScanFiles(entries, dir, scanned, tier) ==
    IF dir = <<>> \/ scanned >= MaxFilesToScan THEN <<>>
    ELSE LET f == entries[Head(dir)]
         IN (IF Selects(tier, f) THEN <<Head(dir)>> ELSE <<>>)
            \o ScanFiles(entries, Tail(dir),
                         IF Counts(tier, f) THEN scanned + 1 ELSE scanned, tier)

FindIflowDefinitionFiles(entries, dir) ==
    LET first == ScanFiles(entries, dir, 0, 1)
        second == ScanFiles(entries, dir, 0, 2)
        third == ScanFiles(entries, dir, 0, 3)
    IN IF first # <<>> THEN first
       ELSE IF second # <<>> THEN second
       ELSE third


\* ------------------------------------------------------------------ state
VARIABLES
    stage,              \* position inside check_security_compliance
    content,            \* its content argument
    properties,         \* its properties argument
    check,              \* its local result dict
    pc,                 \* position inside get_iflow_content
    iflow_path,         \* its argument
    current_iflow_path, \* self.current_iflow_path
    current_iflow_id,   \* self.current_iflow_id
    current_iflow_name, \* self.current_iflow_name
    artifact,           \* the file at the path
    result,             \* its local result dict
    scratch,            \* the directory extracted_<uuid> of this call
    cleanup_error,      \* shutil.rmtree raised in the finally block
    extracted,          \* the files zip_ref.extract wrote to the directory,
                        \* by their position in the archive
    iflow_files,        \* the list _find_iflow_definition_files returned
    next_file,          \* index of the next definition file to process
    analyzed,           \* what was done on each file that was processed
                        \* (0 stands for the file at the path itself)
    ret,                \* the record the call returned
    outcome,            \* "none", "returned" or "raised"
    find_tree,          \* the files under unzip_dir, in os.walk order
    find_pass,          \* position inside _find_iflow_definition_files
    find_files,         \* its local list iflow_files
    find_scans,         \* per pass run: files selected and files examined
    prop_sources,       \* the texts of the property files, in reading order
    prop_parsed,        \* the dict extract_properties returned for each
    prop_merged,        \* the dict properties they are merged into
    jobs,               \* JobManager._jobs: the job of each id
    tasks,              \* position of the background task of each job
    cancel_ok,          \* the ids for which cancel_job returned True
    cancel_response     \* status code of the last answer of the cancel route

secVars == <<stage, content, properties, check>>
callVars == <<pc, iflow_path, current_iflow_path, artifact, result, scratch,
              cleanup_error, extracted, iflow_files, next_file, analyzed,
              ret, outcome, current_iflow_id, current_iflow_name>>
vars == <<stage, content, properties, check, pc, iflow_path,
          current_iflow_path, artifact, result, scratch, cleanup_error,
          extracted, iflow_files, next_file, analyzed, ret, outcome,
          find_tree, find_pass, find_files, find_scans,
          prop_sources, prop_parsed, prop_merged,
          current_iflow_id, current_iflow_name,
          jobs, tasks, cancel_ok, cancel_response>>

connVars == <<current_iflow_id, current_iflow_name>>

findVars == <<find_tree, find_pass, find_files, find_scans>>

propVars == <<prop_sources, prop_parsed, prop_merged>>

\* ------------------------------------------------------------- review jobs
\* the ids create_job may hand out
Jobs == 1..MaxJobs

\* self._jobs.get(job_id) of an id that is not in the dict
NoJob == [status |-> "absent"]

\* Job.__init__
NewJob ==
    [status |-> "pending", progress |-> 0, completed_at |-> NoValue,
     result_file |-> NoValue, error |-> NoValue, logs |-> <<>>]

\* JobManager.update_job: False for an unknown id, else every field of
\* updates that the job has is set
UpdateJob(js, job_id, updates) ==
    IF js[job_id] = NoJob THEN js
    ELSE [js EXCEPT ![job_id] =
             [key \in DOMAIN @ |->
                 IF key \in DOMAIN updates THEN updates[key] ELSE @[key]]]

\* JobManager.add_log
AddLog(js, job_id, message) ==
    IF js[job_id] = NoJob THEN js
    ELSE [js EXCEPT ![job_id].logs = Append(@, message)]

\* JobManager.cancel_job: the dict it leaves and the value it returns
CancelJobIn(js, job_id) ==
    IF js[job_id] = NoJob THEN [jobs |-> js, returns |-> FALSE]
    ELSE IF js[job_id].status \in {"pending", "running"}
         THEN [jobs |-> [js EXCEPT ![job_id].status = "cancelled",
                                   ![job_id].completed_at = "at cancel"],
               returns |-> TRUE]
         ELSE [jobs |-> js, returns |-> FALSE]

jobVars == <<jobs, tasks, cancel_ok, cancel_response>>

\* no review job was submitted
NoJobs ==
    /\ jobs = [j \in Jobs |-> NoJob]
    /\ tasks = [j \in Jobs |-> "none"]
    /\ cancel_ok = {}
    /\ cancel_response = 0

\* no property file is being read
NoProps ==
    /\ prop_sources = <<>>
    /\ prop_parsed = <<>>
    /\ prop_merged = <<>>

\* no search is under way
NoFind ==
    /\ find_tree = <<>>
    /\ find_pass = "off"
    /\ find_files = <<>>
    /\ find_scans = <<>>

NoCall ==
    /\ pc = "idle"
    /\ iflow_path = NoPath
    /\ current_iflow_path = NoPath
    /\ current_iflow_id = NoValue
    /\ current_iflow_name = NoValue
    /\ artifact = File(FALSE, ".zip", "zip", <<>>, NoText, NoFile)
    /\ result = NotReturned
    /\ scratch = "none"
    /\ cleanup_error = FALSE
    /\ extracted = <<>>
    /\ iflow_files = <<>>
    /\ next_file = 1
    /\ analyzed = <<>>
    /\ ret = NotReturned
    /\ outcome = "none"

NoCheck ==
    /\ stage = "off"
    /\ content = SecurityView(NoText)
    /\ properties = <<>>
    /\ check = NewSecurityResult

\* ------------------------- SpecSec: check_security_compliance by stages
InitSec ==
    /\ content \in Contents
    /\ properties \in PropertyMaps
    /\ check = NewSecurityResult
    /\ stage = "direct"
    /\ NoCall
    /\ NoFind
    /\ NoProps
    /\ NoJobs

ScanDirectPatterns ==
    /\ stage = "direct"
    /\ check' = StageDirect(check, content)
    /\ stage' = "params"
    /\ UNCHANGED <<content, properties>>
    /\ UNCHANGED <<callVars, findVars, propVars, jobVars>>

ScanParamPatterns ==
    /\ stage = "params"
    /\ check' = StageParams(check, content, properties)
    /\ stage' = "flows"
    /\ UNCHANGED <<content, properties>>
    /\ UNCHANGED <<callVars, findVars, propVars, jobVars>>

WalkMessageFlows ==
    /\ stage = "flows"
    /\ check' = StageFlows(check, content, properties)
    /\ stage' = "fallback"
    /\ UNCHANGED <<content, properties>>
    /\ UNCHANGED <<callVars, findVars, propVars, jobVars>>

FallbackPatterns ==
    /\ stage = "fallback"
    /\ check' = StageFallback(check, content)
    /\ stage' = "properties"
    /\ UNCHANGED <<content, properties>>
    /\ UNCHANGED <<callVars, findVars, propVars, jobVars>>

CheckProperties ==
    /\ stage = "properties"
    /\ check' = StageProperties(check, properties)
    /\ stage' = "final"
    /\ UNCHANGED <<content, properties>>
    /\ UNCHANGED <<callVars, findVars, propVars, jobVars>>

FinalDetermination ==
    /\ stage = "final"
    /\ check' = StageFinal(check, content)
    /\ stage' = "returned"
    /\ UNCHANGED <<content, properties>>
    /\ UNCHANGED <<callVars, findVars, propVars, jobVars>>

NextSec ==
    \/ ScanDirectPatterns
    \/ ScanParamPatterns
    \/ WalkMessageFlows
    \/ FallbackPatterns
    \/ CheckProperties
    \/ FinalDetermination

SpecSec == InitSec /\ [][NextSec]_vars

\* --------- SpecResolve: check_security_compliance on one placeholder,
\* with longer property maps and with errors inside the try block
\* a text whose only declaration is the placeholder {{AUTH_METHOD}}
PlaceholderContents ==
    {[wellFormed |-> w, sites |-> <<Site(f, "{{AUTH_METHOD}}")>>, url |-> u,
      kw |-> {}] : w \in BOOLEAN, f \in Forms, u \in BOOLEAN}

\* dicts with one entry more than PropertyMaps allows, so that two keys can
\* match the same parameter name, over one more key and one more value
LongerPropertyMaps ==
    {ps \in SeqsUpTo((PropKeys \cup {"S4HANA_authenticationMethod_16"})
                          \X (PropValues \cup {"Client Certificate"}),
                     MaxProps + 1) :
        \A i, j \in 1..Len(ps) : i # j => ps[i][1] # ps[j][1]}

InitResolve ==
    /\ content \in PlaceholderContents
    /\ properties \in LongerPropertyMaps
    /\ check = NewSecurityResult
    /\ stage = "direct"
    /\ NoCall
    /\ NoFind
    /\ NoProps
    /\ NoJobs

\* variant: the except clause also marks the content non-compliant
CaughtErrorNonCompliant(r) ==
    [r EXCEPT !.details = Append(@, Detail("InternalError", NoParam)),
              !.is_compliant = FALSE]

\* except Exception as e: result["details"].append("Error during security
\* compliance check: ...")
CaughtError(r) ==
    [r EXCEPT !.details = Append(@, Detail("InternalError", NoParam))]

\* a statement of the try block raises (a value that is no string, say):
\* the stages not yet run are skipped and the dict is returned
RaiseInCheck ==
    /\ stage \in {"direct", "params", "flows", "fallback", "properties", "final"}
    /\ check' = CaughtError(check)
    /\ stage' = "returned"
    /\ UNCHANGED <<content, properties>>
    /\ UNCHANGED <<callVars, findVars, propVars, jobVars>>

NextResolve ==
    \/ NextSec
    \/ RaiseInCheck

SpecResolve == InitResolve /\ [][NextResolve]_vars

\* ------------------------------------------- Spec: get_iflow_content
Init == NoCheck /\ NoCall /\ NoFind /\ NoProps /\ NoJobs

\* iflow_path if iflow_path else self.current_iflow_path
FilePath == IF iflow_path # NoPath THEN iflow_path ELSE current_iflow_path

\* variant: no existence test before the dispatch
PathExistsUnchecked(a) == TRUE

\* os.path.exists(file_path)
PathExists(a) == a.exists

\* variant: the removal at the end of the try block instead of in finally
AfterExtractionErrorSkipsCleanup == "summary"

\* where control goes when the try block of _process_zip_file raises: the
\* except clause sets result["error"] and the finally block runs
AfterExtractionError == "cleanup"

\* variant: no outer except clause
UnhandledOutcomePropagates == "raised"

\* what the outer except clauses of get_iflow_content make of an exception
UnhandledOutcome == "returned"

\* a call of get_iflow_content(p) with file a at the path
GetIflowContent(a, p) ==
    /\ pc = "idle"
    /\ pc' = "entry"
    /\ artifact' = a
    /\ iflow_path' = p
    /\ UNCHANGED <<current_iflow_path, result, scratch, cleanup_error,
                   extracted, iflow_files, next_file, analyzed, ret, outcome>>
    /\ UNCHANGED <<secVars, findVars, propVars, connVars, jobVars>>

\* an earlier call on the connection: direct_review_packages sets the
\* current IFlow and extract_iflow stores the path of the download
ExtractIflow ==
    /\ pc = "idle"
    /\ current_iflow_id = NoValue
    /\ current_iflow_id' = "Flow_1"
    /\ current_iflow_name' = "Flow 1"
    /\ current_iflow_path' = "path"
    /\ UNCHANGED <<pc, iflow_path, artifact, result, scratch, cleanup_error,
                   extracted, iflow_files, next_file, analyzed, ret, outcome>>
    /\ UNCHANGED <<secVars, findVars, propVars, jobVars>>

\* the caller has the record; the locals of the call are gone
CallEnds ==
    /\ pc = "returned"
    /\ pc' = "idle"
    /\ iflow_path' = NoPath
    /\ artifact' = File(FALSE, ".zip", "zip", <<>>, NoText, NoFile)
    /\ result' = NotReturned
    /\ scratch' = "none"
    /\ cleanup_error' = FALSE
    /\ extracted' = <<>>
    /\ iflow_files' = <<>>
    /\ next_file' = 1
    /\ analyzed' = <<>>
    /\ ret' = NotReturned
    /\ outcome' = "none"
    /\ UNCHANGED current_iflow_path
    /\ UNCHANGED <<secVars, findVars, propVars, connVars, jobVars>>

Return(r) ==
    /\ ret' = r
    /\ outcome' = "returned"
    /\ pc' = "returned"

ReturnNoPath ==
    /\ pc = "entry"
    /\ FilePath = NoPath
    /\ Return(ErrorRecord("No IFlow path available"))
    /\ UNCHANGED <<iflow_path, current_iflow_path, artifact, result, scratch,
                   cleanup_error, extracted, iflow_files, next_file, analyzed>>
    /\ UNCHANGED <<secVars, findVars, propVars, connVars, jobVars>>

ReturnNotFound ==
    /\ pc = "entry"
    /\ FilePath # NoPath
    /\ ~PathExists(artifact)
    /\ Return(ErrorRecord("File does not exist"))
    /\ UNCHANGED <<iflow_path, current_iflow_path, artifact, result, scratch,
                   cleanup_error, extracted, iflow_files, next_file, analyzed>>
    /\ UNCHANGED <<secVars, findVars, propVars, connVars, jobVars>>

Dispatch ==
    /\ pc = "entry"
    /\ FilePath # NoPath
    /\ PathExists(artifact)
    /\ result' =
           InitializeResultStructure(current_iflow_id, current_iflow_name)
    /\ pc' = IF EndsWithZip(artifact.ext) THEN "zip"
             ELSE IF artifact.ext \in {".xml", ".iflw"} THEN "xml"
             ELSE "unknown"
    /\ UNCHANGED <<iflow_path, current_iflow_path, artifact, scratch,
                   cleanup_error, extracted, iflow_files, next_file, analyzed,
                   ret, outcome>>
    /\ UNCHANGED <<secVars, findVars, propVars, connVars, jobVars>>

\* _process_unknown_file: PK header, XML marker, or text for the regexes
SniffUnknownFile ==
    /\ pc = "unknown"
    /\ \/ /\ artifact.body \in {"zip", "badzip"}
          /\ pc' = "zip"
          /\ UNCHANGED result
       \/ /\ artifact.body = "xml"
          /\ pc' = "xml"
          /\ UNCHANGED result
       \/ /\ artifact.body = "text"
          /\ result' = ExtractWithRegex(result, artifact.text.rx)
          /\ pc' = "summary"
    /\ UNCHANGED <<iflow_path, current_iflow_path, artifact, scratch,
                   cleanup_error, extracted, iflow_files, next_file, analyzed,
                   ret, outcome>>
    /\ UNCHANGED <<secVars, findVars, propVars, connVars, jobVars>>

\* an exception before the try block of _process_zip_file: caught by the
\* caller, get_iflow_content or _process_unknown_file
RaiseBeforeExtraction ==
    /\ pc = "zip"
    /\ result' = IF EndsWithZip(artifact.ext)
                 THEN [result EXCEPT !.processing_error = "Error processing IFlow file"]
                 ELSE [result EXCEPT !.processing_errors =
                          Append(@, "Error processing unknown file")]
    /\ pc' = "summary"
    /\ UNCHANGED <<iflow_path, current_iflow_path, artifact, scratch,
                   cleanup_error, extracted, iflow_files, next_file, analyzed,
                   ret, outcome>>
    /\ UNCHANGED <<secVars, findVars, propVars, connVars, jobVars>>

MakeScratchDirectory ==
    /\ pc = "zip"
    /\ scratch' = "present"
    /\ pc' = "open"
    /\ UNCHANGED <<iflow_path, current_iflow_path, artifact, result,
                   cleanup_error, extracted, iflow_files, next_file, analyzed,
                   ret, outcome>>
    /\ UNCHANGED <<secVars, findVars, propVars, connVars, jobVars>>

\* variant: the failure to open recorded like a failing entry
ExtractionErrorAsProcessingError(res) ==
    [res EXCEPT !.processing_errors = Append(@, "Error extracting")]

ExtractionError(res) == [res EXCEPT !.error = "Extraction error"]

\* zipfile.ZipFile(file_path, 'r') opens the file
ArchiveOpens(a) == a.exists /\ a.body = "zip"

\* zipfile.ZipFile(file_path) raises
OpenArchiveFails ==
    /\ pc = "open"
    /\ ~ArchiveOpens(artifact)
    /\ result' = ExtractionError(result)
    /\ pc' = AfterExtractionError
    /\ UNCHANGED <<iflow_path, current_iflow_path, artifact, scratch,
                   cleanup_error, extracted, iflow_files, next_file, analyzed,
                   ret, outcome>>
    /\ UNCHANGED <<secVars, findVars, propVars, connVars, jobVars>>

\* the loop over files_to_extract, had it no try around zip_ref.extract: the
\* first failing entry ends the loop
RECURSIVE ExtractAllStopsAtFailure(_, _, _)
ExtractAllStopsAtFailure(entries, failing, i) ==
    IF i > Len(entries) THEN <<<<>>, <<>>>>
    ELSE IF ~ShouldExtract(entries[i].name)
         THEN ExtractAllStopsAtFailure(entries, failing, i + 1)
         ELSE IF i \in failing
              THEN <<<<>>, <<"Error extracting">>>>
              ELSE LET rest == ExtractAllStopsAtFailure(entries, failing, i + 1)
                   IN <<<<i>> \o rest[1], rest[2]>>

RECURSIVE ExtractAll(_, _, _)
\* the loop over files_to_extract: <<files written, errors appended>>
ExtractAll(entries, failing, i) ==
    IF i > Len(entries) THEN <<<<>>, <<>>>>
    ELSE LET rest == ExtractAll(entries, failing, i + 1)
         IN IF ~ShouldExtract(entries[i].name) THEN rest
            ELSE IF i \in failing
                 THEN <<rest[1], <<"Error extracting">> \o rest[2]>>
                 ELSE <<<<i>> \o rest[1], rest[2]>>

ExtractEntries ==
    /\ pc = "open"
    /\ ArchiveOpens(artifact)
    /\ \E failing \in SUBSET {i \in 1..Len(artifact.entries) :
                                ShouldExtract(artifact.entries[i].name)} :
          LET done == ExtractAll(artifact.entries, failing, 1)
          IN /\ extracted' = done[1]
             /\ result' = [result EXCEPT !.processing_errors = @ \o done[2]]
    /\ pc' = "find"
    /\ UNCHANGED <<iflow_path, current_iflow_path, artifact, scratch,
                   cleanup_error, iflow_files, next_file, analyzed, ret, outcome>>
    /\ UNCHANGED <<secVars, findVars, propVars, connVars, jobVars>>

\* _process_project_file, _process_metainfo_file, _process_manifest_file (the
\* archives of the domain hold none of these files) and the file search
FindDefinitionFiles ==
    /\ pc = "find"
    /\ iflow_files' = FindIflowDefinitionFiles(artifact.entries, extracted)
    /\ next_file' = 1
    /\ pc' = "files"
    /\ UNCHANGED <<iflow_path, current_iflow_path, artifact, result, scratch,
                   cleanup_error, extracted, analyzed, ret, outcome>>
    /\ UNCHANGED <<secVars, findVars, propVars, connVars, jobVars>>

ExtensionOf(name) == IF EndsWithIflw(name) THEN ".iflw" ELSE ".xml"

\* the parameters.prop written next to the definition files, if any
ExtractedParameters ==
    LET hit == SelectSeq(extracted,
                   LAMBDA i : artifact.entries[i].name = "parameters.prop")
    IN IF hit = <<>> THEN NoFile ELSE artifact.entries[hit[1]].lines

\* the reference integrate_security_check gets for a processed file
DefinitionRef(i) ==
    FileRef(ExtensionOf(artifact.entries[i].name), <<>>, ExtractedParameters)
XmlFileRef == FileRef(artifact.ext, <<>>, artifact.sibling)


\* one iteration of: for iflow_file in iflow_files
ProcessDefinition ==
    /\ pc = "files"
    /\ next_file <= Len(iflow_files)
    /\ LET i == iflow_files[next_file]
           f == artifact.entries[i]
       IN \/ /\ result' = ProcessText(result, f.name, f.text, DefinitionRef(i))
             /\ analyzed' = Append(analyzed, Analysis(i, f.text))
          \/ /\ result' = [result EXCEPT !.processing_errors =
                              Append(@, "Error processing file")]
             /\ UNCHANGED analyzed
    /\ next_file' = next_file + 1
    /\ UNCHANGED <<pc, iflow_path, current_iflow_path, artifact, scratch,
                   cleanup_error, extracted, iflow_files, ret, outcome>>
    /\ UNCHANGED <<secVars, findVars, propVars, connVars, jobVars>>

DefinitionsDone ==
    /\ pc = "files"
    /\ next_file > Len(iflow_files)
    /\ pc' = "cleanup"
    /\ UNCHANGED <<iflow_path, current_iflow_path, artifact, result, scratch,
                   cleanup_error, extracted, iflow_files, next_file, analyzed,
                   ret, outcome>>
    /\ UNCHANGED <<secVars, findVars, propVars, connVars, jobVars>>

\* an exception inside the try block after the archive was read
RaiseDuringExtraction ==
    /\ pc \in {"find", "files"}
    /\ result' = ExtractionError(result)
    /\ pc' = AfterExtractionError
    /\ UNCHANGED <<iflow_path, current_iflow_path, artifact, scratch,
                   cleanup_error, extracted, iflow_files, next_file, analyzed,
                   ret, outcome>>
    /\ UNCHANGED <<secVars, findVars, propVars, connVars, jobVars>>

\* finally: shutil.rmtree(unzip_dir)
RemoveScratchDirectory ==
    /\ pc = "cleanup"
    /\ scratch' = IF scratch = "present" THEN "removed" ELSE scratch
    /\ pc' = "summary"
    /\ UNCHANGED <<iflow_path, current_iflow_path, artifact, result,
                   cleanup_error, extracted, iflow_files, next_file, analyzed,
                   ret, outcome>>
    /\ UNCHANGED <<secVars, findVars, propVars, connVars, jobVars>>

\* finally: shutil.rmtree raises, "Cleanup error (non-fatal)"
RemoveScratchDirectoryFails ==
    /\ pc = "cleanup"
    /\ scratch = "present"
    /\ cleanup_error' = TRUE
    /\ pc' = "summary"
    /\ UNCHANGED <<iflow_path, current_iflow_path, artifact, result, scratch,
                   extracted, iflow_files, next_file, analyzed, ret, outcome>>
    /\ UNCHANGED <<secVars, findVars, propVars, connVars, jobVars>>

\* _process_xml_file
ProcessXmlFile ==
    /\ pc = "xml"
    /\ \/ /\ result' = ProcessText(result, "file", artifact.text, XmlFileRef)
          /\ analyzed' = Append(analyzed, Analysis(0, artifact.text))
       \/ /\ result' = [result EXCEPT !.processing_errors =
                           Append(@, "Error processing XML file")]
          /\ UNCHANGED analyzed
    /\ pc' = "summary"
    /\ UNCHANGED <<iflow_path, current_iflow_path, artifact, scratch,
                   cleanup_error, extracted, iflow_files, next_file, ret, outcome>>
    /\ UNCHANGED <<secVars, findVars, propVars, connVars, jobVars>>

\* _display_result_summary, then return json.dumps(result)
DisplayAndReturn ==
    /\ pc = "summary"
    /\ Return(result)
    /\ UNCHANGED <<iflow_path, current_iflow_path, artifact, result, scratch,
                   cleanup_error, extracted, iflow_files, next_file, analyzed>>
    /\ UNCHANGED <<secVars, findVars, propVars, connVars, jobVars>>

\* an exception outside the inner try (the summary, json.dumps): the outer
\* except clause returns an error record
SummaryRaises ==
    /\ pc = "summary"
    /\ outcome' = UnhandledOutcome
    /\ ret' = IF UnhandledOutcome = "returned"
              THEN ErrorRecord("Exception while parsing IFlow content")
              ELSE NotReturned
    /\ pc' = "returned"
    /\ UNCHANGED <<iflow_path, current_iflow_path, artifact, result, scratch,
                   cleanup_error, extracted, iflow_files, next_file, analyzed>>
    /\ UNCHANGED <<secVars, findVars, propVars, connVars, jobVars>>

Next ==
    \/ \E a \in Artifacts, p \in {NoPath, "path"} : GetIflowContent(a, p)
    \/ CallEnds
    \/ ReturnNoPath
    \/ ReturnNotFound
    \/ Dispatch
    \/ SniffUnknownFile
    \/ RaiseBeforeExtraction
    \/ MakeScratchDirectory
    \/ OpenArchiveFails
    \/ ExtractEntries
    \/ FindDefinitionFiles
    \/ ProcessDefinition
    \/ DefinitionsDone
    \/ RaiseDuringExtraction
    \/ RemoveScratchDirectory
    \/ RemoveScratchDirectoryFails
    \/ ProcessXmlFile
    \/ DisplayAndReturn
    \/ SummaryRaises

Spec == Init /\ [][Next]_vars

\* ------- SpecConn: get_iflow_content on a connection earlier calls used
NextConn ==
    \/ Next
    \/ ExtractIflow

SpecConn == Init /\ [][NextConn]_vars

\* ----------------- SpecFind: _find_iflow_definition_files, pass by pass
MaxRuns == 2

\* the files of a directory tree: a definition file, an XML file with and
\* one without markers, a property file, and a .project file (XML-like
\* content, neither .iflw nor .xml)
TreeFiles ==
    {Entry("a.iflw", TextBasicFlow, <<>>), Entry("c.xml", TextNoAuth, <<>>),
     Entry("c.xml", TextMalformed, <<>>),
     Entry("parameters.prop", NoText, << <<"AUTH_METHOD", "Basic">> >>),
     Entry(".project", NoText, <<>>)}

RECURSIVE Flatten(_)
Flatten(rs) == IF rs = <<>> THEN <<>> ELSE Head(rs) \o Flatten(Tail(rs))

\* the files in the order os.walk yields them: runs of one file, alone or
\* repeated over more folders than the scan budget
Trees ==
    LET Runs == {[i \in 1..n |-> e] :
                    e \in TreeFiles, n \in {1, MaxFilesToScan + 1}}
    IN {Flatten(rs) : rs \in SeqsUpTo(Runs, MaxRuns)}

\* the files a pass looks into or counts: the first pass the .iflw and .xml
\* files (it samples the .xml ones), the second the .xml files, the third
\* opens and samples every file that is not .class or .jar
Examines(tier, f) ==
    CASE tier = 1 -> EndsWithIflw(f.name) \/ EndsWithXml(f.name)
      [] tier = 2 -> EndsWithXml(f.name)
      [] OTHER -> TRUE

\* how many files one pass examines before the walk or the budget ends
RECURSIVE ExaminedFiles(_, _, _, _)
ExaminedFiles(entries, dir, scanned, tier) ==
    IF dir = <<>> \/ scanned >= MaxFilesToScan THEN 0
    ELSE LET f == entries[Head(dir)]
         IN (IF Examines(tier, f) THEN 1 ELSE 0)
            + ExaminedFiles(entries, Tail(dir),
                            IF Counts(tier, f) THEN scanned + 1 ELSE scanned, tier)

InitFind ==
    /\ find_tree \in Trees
    /\ find_pass = "first"
    /\ find_files = <<>>
    /\ find_scans = <<>>
    /\ NoCheck
    /\ NoCall
    /\ NoProps
    /\ NoJobs

\* one pass over the tree with files_scanned reset, and the test of
\* len(iflow_files) that follows it
RunPass(tier, next) ==
    LET dir == [i \in 1..Len(find_tree) |-> i]
        selected == ScanFiles(find_tree, dir, 0, tier)
    IN /\ find_files' = selected
       /\ find_scans' = Append(find_scans, [tier |-> tier, selected |-> Len(selected),
                                  examined |-> ExaminedFiles(find_tree, dir, 0, tier)])
       /\ find_pass' = IF selected = <<>> THEN next ELSE "return"
       /\ UNCHANGED <<find_tree, secVars, callVars, propVars, jobVars>>

FirstPass == find_pass = "first" /\ RunPass(1, "second")

SecondPass == find_pass = "second" /\ RunPass(2, "third")

ThirdPass == find_pass = "third" /\ RunPass(3, "return")

\* return iflow_files
ReturnFiles ==
    /\ find_pass = "return"
    /\ find_pass' = "returned"
    /\ UNCHANGED <<find_tree, find_files, find_scans, secVars, callVars, propVars, jobVars>>

NextFind ==
    \/ FirstPass
    \/ SecondPass
    \/ ThirdPass
    \/ ReturnFiles

SpecFind == InitFind /\ [][NextFind]_vars

\* --------- SpecProps: extract_properties and the merge of property sources
MaxLineLen == 4
MaxSources == 2

\* the characters of a line of a property file
PropChars == {"a", "b", "=", "#", " "}

PropLines == SeqsUpTo(PropChars, MaxLineLen)

\* str.strip() on a line free of other whitespace
RECURSIVE Strip(_)
Strip(l) ==
    IF l = <<>> THEN l
    ELSE IF Head(l) = " " THEN Strip(Tail(l))
    ELSE IF l[Len(l)] = " " THEN Strip(SubSeq(l, 1, Len(l) - 1))
    ELSE l

\* variant: line.rsplit('=', 1), the split at the last "="
ParseLineAtLastEquals(l) ==
    LET line == Strip(l)
        eqs == {p \in 1..Len(line) : line[p] = "="}
    IN IF line # <<>> /\ Head(line) # "#" /\ eqs # {}
       THEN LET p == CHOOSE x \in eqs : \A y \in eqs : y <= x
            IN << <<Strip(SubSeq(line, 1, p - 1)),
                    Strip(SubSeq(line, p + 1, Len(line)))>> >>
       ELSE <<>>

\* the body of the loop of extract_properties: the pair a line yields, if
\* any (line.split('=', 1) splits at the first "=")
ParseLine(l) ==
    LET line == Strip(l)
        eqs == {p \in 1..Len(line) : line[p] = "="}
    IN IF line # <<>> /\ Head(line) # "#" /\ eqs # {}
       THEN LET p == CHOOSE x \in eqs : \A y \in eqs : x <= y
            IN << <<Strip(SubSeq(line, 1, p - 1)),
                    Strip(SubSeq(line, p + 1, Len(line)))>> >>
       ELSE <<>>

\* extract_properties on a text given by its lines
ExtractPropertiesText(text) ==
    ExtractProperties(Flatten([i \in 1..Len(text) |-> ParseLine(text[i])]))

\* the property files check_authentication_security finds in a ZIP: one
\* file of one arbitrary line, or several files of lines that share keys
PropertySources ==
    LET sample == {<<"a", "=", "a">>, <<"a", "=", "b">>, <<"b", "=", "a">>}
        texts == {<<l>> : l \in sample} \cup {<<l, m>> : l \in sample, m \in sample}
    IN {<< <<l>> >> : l \in PropLines} \cup SeqsUpTo(texts, MaxSources)

InitProps ==
    /\ prop_sources \in PropertySources
    /\ prop_parsed = <<>>
    /\ prop_merged = <<>>
    /\ NoCheck
    /\ NoCall
    /\ NoFind
    /\ NoJobs

\* one iteration of: for file_name, content in property_files_content
\* .items(): file_properties = extract_properties(content);
\* properties.update(file_properties)
ReadPropertySource ==
    /\ Len(prop_parsed) < Len(prop_sources)
    /\ LET file_properties ==
               ExtractPropertiesText(prop_sources[Len(prop_parsed) + 1])
       IN /\ prop_parsed' = Append(prop_parsed, file_properties)
          /\ prop_merged' = DictUpdate(prop_merged, file_properties)
    /\ UNCHANGED <<prop_sources, secVars, callVars, findVars, jobVars>>

NextProps == ReadPropertySource

SpecProps == InitProps /\ [][NextProps]_vars

\* ------------- SpecJobs: review jobs, their background tasks and cancel
InitJobs == NoJobs /\ NoCheck /\ NoCall /\ NoFind /\ NoProps

\* POST /review: create_job, add_log, background_tasks.add_task
SubmitReview(j) ==
    /\ jobs[j] = NoJob
    /\ jobs' = AddLog([jobs EXCEPT ![j] = NewJob], j, "Job submitted")
    /\ tasks' = [tasks EXCEPT ![j] = "queued"]
    /\ UNCHANGED <<cancel_ok, cancel_response>>
    /\ UNCHANGED <<secVars, callVars, findVars, propVars>>

\* run_review_job up to the call of direct_review_packages
StartReviewJob(j) ==
    /\ tasks[j] = "queued"
    /\ jobs' = AddLog(UpdateJob(jobs, j, [status |-> "running"]), j,
                      "Starting review process")
    /\ tasks' = [tasks EXCEPT ![j] = "reviewing"]
    /\ UNCHANGED <<cancel_ok, cancel_response>>
    /\ UNCHANGED <<secVars, callVars, findVars, propVars>>

\* update_progress, called back by direct_review_packages with a progress
ReportProgress(j, p) ==
    /\ tasks[j] = "reviewing"
    /\ jobs' = UpdateJob(jobs, j, [progress |-> p])
    /\ UNCHANGED <<tasks, cancel_ok, cancel_response>>
    /\ UNCHANGED <<secVars, callVars, findVars, propVars>>

\* direct_review_packages returned: the completion update and its log
CompleteReviewJob(j) ==
    /\ tasks[j] = "reviewing"
    /\ jobs' = AddLog(UpdateJob(jobs, j,
                          [status |-> "completed", result_file |-> "report",
                           completed_at |-> "at end", progress |-> 100]),
                      j, "Review completed successfully")
    /\ tasks' = [tasks EXCEPT ![j] = "done"]
    /\ UNCHANGED <<cancel_ok, cancel_response>>
    /\ UNCHANGED <<secVars, callVars, findVars, propVars>>

\* an exception inside the try block: the except clause of run_review_job
FailReviewJob(j) ==
    /\ tasks[j] = "reviewing"
    /\ jobs' = AddLog(UpdateJob(jobs, j,
                          [status |-> "failed", error |-> "error",
                           completed_at |-> "at end"]),
                      j, "Error in review job")
    /\ tasks' = [tasks EXCEPT ![j] = "done"]
    /\ UNCHANGED <<cancel_ok, cancel_response>>
    /\ UNCHANGED <<secVars, callVars, findVars, propVars>>

\* POST /review/{job_id}/cancel: 200 when cancel_job returned True, else
\* 404 for an unknown id and 400 for a job that is not cancellable
CancelJob(j) ==
    LET call == CancelJobIn(jobs, j)
    IN /\ jobs' = call.jobs
       /\ cancel_ok' = IF call.returns THEN cancel_ok \cup {j} ELSE cancel_ok
       /\ cancel_response' = IF call.returns THEN 200
                             ELSE IF jobs[j] = NoJob THEN 404 ELSE 400
       /\ UNCHANGED tasks
       /\ UNCHANGED <<secVars, callVars, findVars, propVars>>

NextJobs ==
    \/ \E j \in Jobs : SubmitReview(j)
    \/ \E j \in Jobs : StartReviewJob(j)
    \/ \E j \in Jobs, p \in ProgressValues : ReportProgress(j, p)
    \/ \E j \in Jobs : CompleteReviewJob(j)
    \/ \E j \in Jobs : FailReviewJob(j)
    \/ \E j \in Jobs : CancelJob(j)

SpecJobs == InitJobs /\ [][NextJobs]_vars

\* ================================================================ claims
\* the declarations check_security_compliance reads: the regular expressions
\* see the kv, attr and flowkv forms in any text, the element tree sees the
\* message flows of a text that parses
ReadSites ==
    {i \in 1..Len(content.sites) :
        content.sites[i].form # "flowonly" \/ content.wellFormed}

\* the detail the except clause of check_security_compliance records
InternalErrorDetail == Detail("InternalError", NoParam)

\* the call ran through all its stages
CheckCompleted ==
    stage = "returned" /\ ~InSeq(InternalErrorDetail, check.details)

BasicIssueKinds ==
    {"DirectBasic", "ParamBasic", "FlowDirectBasic", "FlowParamBasic",
     "PatternBasic"}

C4_ResolvedBasicFlagged ==
    stage = "returned" =>
        \A i \in ReadSites :
            LET v == content.sites[i].value
                P == ParamName(v)
                resolved == ResolveParameter(properties, P)
            IN (/\ IsPlaceholder(v)
                /\ Lower(resolved) \in {"basic", "basic authentication"})
               => /\ ~check.is_compliant
                  /\ \E k \in 1..Len(check.issues) :
                        /\ check.issues[k].kind \in {"ParamBasic", "FlowParamBasic"}
                        /\ check.issues[k].param = P
                        /\ check.issues[k].value = resolved

C4_Witness ==
    /\ stage = "returned"
    /\ content.sites = <<Site("attr", "{{AUTH_METHOD}}")>>
    /\ properties = << <<"S4_AUTH_METHOD", "Basic">> >>
    /\ ~check.is_compliant
    /\ InSeq(Issue("ParamBasic", "AUTH_METHOD", "Basic"), check.issues)

\* ------------------------------------------------------------------- C5
\* C5: for every declaration that is read and holds a placeholder {{X}}
\* which the properties resolve to a value that is not Basic, the returned
\* detected_methods holds the entry "<resolved> (from X)", whatever other
\* declarations the content holds.
C5_ResolvedNonBasicListed ==
    stage = "returned" =>
        \A i \in ReadSites :
            LET v == content.sites[i].value
                X == ParamName(v)
                resolved == ResolveParameter(properties, X)
            IN (/\ IsPlaceholder(v)
                /\ resolved # NoValue
                /\ ~IsBasicValue(resolved))
               => InSeq(MethodFrom(resolved, X), check.detected_methods)

\* ------------------------------------------------------------------- C6
\* the content without the placeholders the properties do not resolve
Unresolved(s) ==
    /\ IsPlaceholder(s.value)
    /\ ResolveParameter(properties, ParamName(s.value)) = NoValue

ResolvableContent ==
    [content EXCEPT !.sites = SelectSeq(@, LAMBDA s : ~Unresolved(s))]

\* C6: a placeholder the properties do not resolve is recorded as a detail
\* and is no violation: the returned dict holds the "Could not resolve
\* parameter" detail for it, every issue it holds is also an issue of the
\* same content without the unresolved placeholders, and it is compliant
\* whenever that content is.
C6_UnresolvedIsDetailOnly ==
    stage = "returned" =>
        LET base == CheckSecurityCompliance(ResolvableContent, properties)
        IN /\ \A k \in 1..Len(check.issues) : InSeq(check.issues[k], base.issues)
           /\ base.is_compliant => check.is_compliant
           /\ \A i \in ReadSites :
                 Unresolved(content.sites[i])
                 => \E k \in 1..Len(check.details) :
                       /\ check.details[k].kind \in {"Unresolved", "FlowUnresolved"}
                       /\ check.details[k].param = ParamName(content.sites[i].value)

C6_Witness ==
    /\ stage = "returned"
    /\ content.sites = <<Site("flowkv", "{{AUTH_METHOD}}")>>
    /\ properties = << <<"auth_type", "Basic">> >>
    /\ InSeq(Detail("Unresolved", "AUTH_METHOD"), check.details)
    /\ InSeq(Detail("FlowUnresolved", "AUTH_METHOD"), check.details)
    /\ check.is_compliant
    /\ check.issues = <<>>

\* ------------------------------------------------------------------- C7
AsSet(s) == {s[i] : i \in 1..Len(s)}

MissingAuthIssue == Issue("MissingAuth", NoParam, NoValue)

\* C7: the final determination, taken after all detection stages: with no
\* detected method and an external-call pattern in the content it sets
\* is_compliant to false and adds the "Possible missing authentication"
\* issue; with a detected method it changes neither is_compliant nor the
\* issues nor the details.
C7_FinalPolicy ==
    [][stage = "final" =>
          /\ (check.detected_methods = <<>> /\ content.url)
             => /\ ~check'.is_compliant
                /\ MissingAuthIssue \in AsSet(check'.issues)
          /\ check.detected_methods # <<>>
             => /\ check'.is_compliant = check.is_compliant
                /\ AsSet(check'.issues) = AsSet(check.issues)
                /\ AsSet(check'.details) = AsSet(check.details)
                /\ AsSet(check'.detected_methods) = AsSet(check.detected_methods)]_vars

C7_Witness ==
    /\ stage = "returned"
    /\ content.url
    /\ check.detected_methods = <<>>
    /\ ~check.is_compliant
    /\ check.issues = <<MissingAuthIssue>>

\* ------------------------------------------------------------------- C1
\* the archive of the scenario, analyzed without any failure
ScenarioArchive ==
    <<Entry("a.iflw", TextParameterized, <<>>),
      Entry("parameters.prop", NoText, << <<"AUTH_METHOD", "Basic">> >>)>>

ScenarioAnalyzed ==
    /\ pc = "returned"
    /\ artifact = File(TRUE, ".zip", "zip", ScenarioArchive, NoText, NoFile)
    /\ extracted = <<1, 2>>
    /\ Len(analyzed) = 1 /\ analyzed[1].file = 1
    /\ ret.kind = "result"
    /\ ret.error = NoError
    /\ ret.processing_errors = <<>>

\* C1: for the archive holding a definition file with
\* authenticationMethod = {{AUTH_METHOD}} and a parameters.prop with
\* AUTH_METHOD=Basic, the returned record has security_compliant false and
\* a security issue naming AUTH_METHOD and Basic.
C1_ArchivePropertiesResolvePlaceholder ==
    ScenarioAnalyzed =>
        /\ ~ret.security_compliant
        /\ \E k \in 1..Len(ret.security_issues) :
              /\ ret.security_issues[k].param = "AUTH_METHOD"
              /\ ret.security_issues[k].value = "Basic"

\* ------------------------------------------------------------------- C2
\* the security_check dict integrate_security_check computed for the k-th
\* analyzed file of the call
AnalyzedCheck(k) ==
    IF analyzed[k].file = 0
    THEN SecurityCheckOf(artifact.text, XmlFileRef)
    ELSE SecurityCheckOf(artifact.entries[analyzed[k].file].text,
                         DefinitionRef(analyzed[k].file))

HasBasicFinding(sc) ==
    \E n \in 1..Len(sc.issues) : sc.issues[n].kind \in BasicIssueKinds

\* C2: in the returned record security_compliant is false whenever one of
\* the analyzed definition files has a Basic finding, whichever file was
\* processed last.
C2_BasicFindingKept ==
    (/\ pc = "returned"
     /\ ret.kind = "result"
     /\ \E k \in 1..Len(analyzed) : HasBasicFinding(AnalyzedCheck(k)))
    => ~ret.security_compliant

NoStructuralFiles ==
    /\ artifact.exists
    /\ artifact.body = "zip"
    /\ \A i \in 1..Len(artifact.entries) :
          /\ ~EndsWithIflw(artifact.entries[i].name)
          /\ ~EndsWithXml(artifact.entries[i].name)

\* C9: every call of get_iflow_content ends by returning a record, never
\* by raising and never with nothing; for an archive without definition
\* files the structural lists of the returned result are empty.
C9_AlwaysReturnsRecord ==
    pc = "returned" =>
        /\ outcome = "returned"
        /\ ret.kind \in {"result", "error"}
        /\ (NoStructuralFiles /\ ret.kind = "result")
           => /\ ret.workflow = <<>>
              /\ ret.key_steps = <<>>
              /\ ret.senders = <<>>
              /\ ret.receivers = <<>>
              /\ ret.mapping_entities = <<>>
              /\ ret.parameters = <<>>
              /\ ret.connection_details = <<>>

C9_Witness ==
    /\ pc = "returned"
    /\ outcome = "returned"
    /\ NoStructuralFiles
    /\ Len(artifact.entries) = 2
    /\ extracted # <<>>
    /\ ret.kind = "result"
    /\ ret.workflow = <<>>
    /\ ret.senders = <<>>

\* ------------------------------------------------------------------ C10
\* C10: when no file exists at the path the call returns a record with its
\* error field set, does not raise, and has neither initialised a result,
\* created the directory, extracted an entry nor analyzed a file.
C10_MissingPathReturnsError ==
    (pc = "returned" /\ ~artifact.exists)
    => /\ outcome = "returned"
       /\ ret.kind = "error"
       /\ ret.error # NoError
       /\ result = NotReturned
       /\ scratch = "none"
       /\ extracted = <<>>
       /\ analyzed = <<>>

C10_Witness ==
    /\ pc = "returned"
    /\ iflow_path # NoPath
    /\ ~artifact.exists
    /\ ret = ErrorRecord("File does not exist")
    /\ scratch = "none"

\* ------------------------------------------------------------------ C11
\* C11: when the archive cannot be opened the call returns, without
\* raising, a record whose error field is set and to whose
\* processing_errors nothing was appended; when the archive opens, the
\* extraction of its entries sets no error field, whatever entries fail.
C11_CorruptArchiveSetsError ==
    /\ (/\ pc = "returned"
        /\ artifact.exists
        /\ ~ArchiveOpens(artifact)
        /\ scratch # "none")
       => /\ outcome = "returned"
          /\ ret.kind \in {"result", "error"}
          /\ ret.error # NoError
          /\ ret.kind = "result" => ret.processing_errors = <<>>
    /\ pc = "find" => result.error = NoError

C11_Witness ==
    /\ pc = "returned"
    /\ artifact = File(TRUE, ".zip", "badzip", <<>>, NoText, NoFile)
    /\ ret.kind = "result"
    /\ ret.error = "Extraction error"
    /\ ret.processing_errors = <<>>

\* ------------------------------------------------------------------ C12
\* the file at the path was a definition file that parsed, and was analyzed
SingleParsedFile ==
    /\ pc = "returned"
    /\ ret.kind = "result"
    /\ Len(analyzed) = 1 /\ analyzed[1].file = 0
    /\ artifact.text.wellFormed

\* C12: for a definition file that parses, has_proper_error_handling is
\* true if and only if a sub-process holding an errorEventDefinition was
\* found; an activityType property containing "error" or an errorHandler /
\* deadLetterQueue element alone does not make it true.
C12_ProperMeansErrorEvent ==
    SingleParsedFile
    => (ret.has_proper_error_handling <=> artifact.text.xml.errorSubprocess)

\* ------------------------------------------------------------------ C13
\* the type a participant element states, by attribute or by property
StatedType(p) == IF p.attr # "none" THEN p.attrValue ELSE p.typeProp

Occurrences(x, s) == Cardinality({i \in 1..Len(s) : s[i] = x})

\* C13: each participant of a parsed definition file is appended to at
\* most one of senders and receivers; one that states a type by attribute
\* or property is listed by that type, and the name decides only for a
\* participant that states none.
C13_ParticipantsClassifiedOnce ==
    SingleParsedFile =>
        \A i \in 1..Len(artifact.text.xml.participants) :
            LET p == artifact.text.xml.participants[i]
            IN /\ Occurrences(p.name, ret.senders)
                  + Occurrences(p.name, ret.receivers) <= 1
               /\ StatedType(p) # NoValue
                  => /\ InSeq(p.name, ret.senders) <=> TypeNamesSender(StatedType(p))
                     /\ InSeq(p.name, ret.receivers)
                        <=> (/\ ~TypeNamesSender(StatedType(p))
                             /\ TypeNamesReceiver(StatedType(p)))

\* ------------------------------------------------------------------ C14
\* the text of the k-th processed file of the call
AnalyzedText(k) ==
    IF analyzed[k].file = 0 THEN artifact.text
    ELSE artifact.entries[analyzed[k].file].text

\* a namespace profile discovers a participant or a process in the text
Discovers(t) ==
    t.wellFormed /\ (t.xml.participants # <<>> \/ t.xml.workflow # <<>>)

\* C14: on every processed file the profiles are tried in their order; the
\* loop ends at the first profile when that profile discovers a participant
\* or a process, and a further profile is tried when the text parses but no
\* participant and no process is discovered.
C14_NextProfileWhenNothingFound ==
    \A k \in 1..Len(analyzed) :
        LET t == AnalyzedText(k)
            tried == analyzed[k].profiles
        IN /\ tried = SubSeq(NamespaceSets, 1, Len(tried))
           /\ Discovers(t) => Len(tried) = 1
           /\ (t.wellFormed /\ ~Discovers(t)) => Len(tried) > 1

\* ------------------------------------------------------------------ C15
\* C15: on every processed file the regular-expression extractor ran exactly
\* when no profile discovered a participant or a process, that is when the
\* text did not parse or parsed and yielded nothing.
C15_RegexWhenNothingFound ==
    \A k \in 1..Len(analyzed) :
        analyzed[k].regex <=> ~Discovers(AnalyzedText(k))

\* ------------------------------------------------------------------ C16
\* the entries of the archive whose name contains a known pattern
SelectedEntries ==
    {i \in 1..Len(artifact.entries) : ShouldExtract(artifact.entries[i].name)}

\* C16: directly after the extraction loop only entries whose name contains
\* a known pattern are extracted, in archive order; every such entry is
\* either extracted or accounted for by one "Error extracting" message in
\* processing_errors, and no top-level error is set.
C16_SelectedEntriesExtractedOrReported ==
    pc = "find" =>
        /\ \A k \in 1..Len(extracted) : extracted[k] \in SelectedEntries
        /\ \A k \in 1..(Len(extracted) - 1) : extracted[k] < extracted[k + 1]
        /\ \A k \in 1..Len(result.processing_errors) :
              result.processing_errors[k] = "Error extracting"
        /\ Len(extracted) + Len(result.processing_errors)
              = Cardinality(SelectedEntries)
        /\ result.error = NoError

\* an archive whose first selected entry failed to extract while the second
\* was extracted
C16_Witness ==
    /\ pc = "find"
    /\ Len(artifact.entries) = 2
    /\ SelectedEntries = {1, 2}
    /\ extracted = <<2>>
    /\ result.processing_errors = <<"Error extracting">>

\* ------------------------------------------------------------------ C17
\* C17: the passes of the search run in tier order, a pass runs only when
\* every earlier pass selected nothing, no pass examines or selects more
\* than the scan budget of files, and at most that many files are returned.
C17_TiersWithinBudget ==
    /\ \A k \in 1..Len(find_scans) :
          /\ find_scans[k].tier = k
          /\ k > 1 => find_scans[k - 1].selected = 0
          /\ find_scans[k].examined <= MaxFilesToScan
          /\ find_scans[k].selected <= MaxFilesToScan
    /\ Len(find_files) <= MaxFilesToScan

\* ------------------------------------------------------------------ C18
\* C18: a call that returns its result record without a processing error
\* has analyzed a file whose extension is .zip and whose content is XML as
\* XML (the file itself was processed, no top-level error), and has taken a
\* file without a known extension whose content starts with PK through the
\* ZIP processing (its scratch directory was created).
C18_KindByContentWhenExtensionWrong ==
    (/\ pc = "returned"
     /\ artifact.exists
     /\ ret.kind = "result"
     /\ ret.processing_error = NoError
     /\ ret.processing_errors = <<>>)
    => /\ (artifact.ext = ".zip" /\ artifact.body = "xml")
            => /\ Len(analyzed) = 1
               /\ analyzed[1].file = 0
               /\ ret.error = NoError
       /\ (artifact.ext = "" /\ artifact.body \in {"zip", "badzip"})
            => scratch # "none"

\* ------------------------------------------------------------------ C19
\* C19: after a call without internal error: when a declaration that is
\* read holds a placeholder {{P}} and the properties hold an entry whose key
\* is exactly P, the value of that entry is the resolved value wherever the
\* entry stands in the map: no other value is listed as resolved from P,
\* and when the value lower-cases to "basic" or "basic authentication" an
\* issue names P and that value.
C19_ExactKeyWins ==
    CheckCompleted =>
        \A i \in ReadSites, k \in 1..Len(properties) :
            LET v == content.sites[i].value
                P == ParamName(v)
                exact == properties[k][2]
            IN (IsPlaceholder(v) /\ properties[k][1] = P)
               => /\ \A n \in 1..Len(check.detected_methods) :
                        check.detected_methods[n].from = P
                            => check.detected_methods[n].value = exact
                  /\ Lower(exact) \in {"basic", "basic authentication"}
                        => \E n \in 1..Len(check.issues) :
                              /\ check.issues[n].param = P
                              /\ check.issues[n].value = exact

\* ------------------------------------------------------------------ C20
\* C20: the keyword fallback changes nothing when an earlier stage detected
\* a method. When none was detected: a Basic keyword in the text sets
\* is_compliant to false, adds the pattern issue and lists the Basic pattern
\* method; without a Basic keyword is_compliant and the issues stay as they
\* are, and an OAuth or certificate keyword only lists its pattern method.
C20_KeywordFallback ==
    [][stage = "fallback" =>
          LET kws == TextKeywords(content)
          IN /\ check.detected_methods # <<>> => check' = check
             /\ check.detected_methods = <<>>
                => /\ "basic" \in kws
                      => /\ ~check'.is_compliant
                         /\ Issue("PatternBasic", NoParam, NoValue)
                               \in AsSet(check'.issues)
                         /\ Method("Basic Authentication (pattern match)")
                               \in AsSet(check'.detected_methods)
                   /\ "basic" \notin kws
                      => /\ check'.is_compliant = check.is_compliant
                         /\ check'.issues = check.issues
                   /\ "oauth" \in kws
                      <=> Method("OAuth (pattern match)")
                             \in AsSet(check'.detected_methods)
                   /\ "cert" \in kws
                      <=> Method("Certificate (pattern match)")
                             \in AsSet(check'.detected_methods)]_vars

\* after the fallback on a text with an OAuth keyword only: the method is
\* listed, the dict still compliant and without issue
C20_Witness ==
    /\ stage = "properties"
    /\ "basic" \notin TextKeywords(content)
    /\ check.detected_methods = <<Method("OAuth (pattern match)")>>
    /\ check.is_compliant
    /\ check.issues = <<>>

\* ------------------------------------------------------------------ C21
\* a key that contains "authenticationMethod" or "auth_type"
AuthKeys == {"S4HANA_authenticationMethod_16", "auth_type"}

\* C21: after a call without internal error, for every entry of the
\* properties whose key contains "authenticationMethod" or "auth_type", the
\* returned dict lists
\* "Certificate (from property)" when the value contains "certificate" and
\* "OAuth (from property)" when it contains "oauth".
C21_PropertyMethodsRecorded ==
    CheckCompleted =>
        \A k \in 1..Len(properties) :
            properties[k][1] \in AuthKeys
            => /\ properties[k][2] = "Client Certificate"
                  => InSeq(Method("Certificate (from property)"),
                           check.detected_methods)
               /\ properties[k][2] = "OAuth 2.0"
                  => InSeq(Method("OAuth (from property)"),
                           check.detected_methods)

\* ------------------------------------------------------------------ C22
\* C22: the step on which an internal error is caught ends the function
\* with the dict returned; it appends the error detail and leaves
\* is_compliant, the issues and the detected methods as they were just
\* before the error.
C22_InternalErrorKeepsVerdict ==
    [][(/\ ~InSeq(InternalErrorDetail, check.details)
        /\ InSeq(InternalErrorDetail, check'.details))
       => /\ stage' = "returned"
          /\ check'.is_compliant = check.is_compliant
          /\ check'.issues = check.issues
          /\ check'.detected_methods = check.detected_methods
          /\ check'.details = Append(check.details, InternalErrorDetail)]_vars

\* an error after a Basic resolution was flagged: the verdict stays false;
\* the stages after the error did not run
C22_Witness ==
    /\ stage = "returned"
    /\ InSeq(InternalErrorDetail, check.details)
    /\ ~check.is_compliant
    /\ check.issues = <<Issue("ParamBasic", "AUTH_METHOD", "Basic")>>
    /\ content.url

\* C23: when the same key occurs in more than one property source, the
\* merged PropertyMap keeps the value of the first source that holds the key
\* (refuted: properties.update lets the last source win)
C23_FirstSourceKept ==
    \A i \in 1..Len(prop_merged) :
        LET key == prop_merged[i][1]
            holders == {j \in 1..Len(prop_parsed) :
                           \E e \in 1..Len(prop_parsed[j]) :
                               prop_parsed[j][e][1] = key}
            first == CHOOSE j \in holders : \A h \in holders : j <= h
        IN \E e \in 1..Len(prop_parsed[first]) :
               prop_parsed[first][e] = prop_merged[i]

\* C24: extract_properties maps every line that is not empty, is not a
\* comment and contains "=" to its trimmed key and trimmed value, split at
\* the first "=" only (the last such line of a key gives the value); a line
\* without "=", an empty line or a comment gives no key; the same text
\* parsed twice gives the same map
C24_ExtractProperties ==
    \A j \in 1..Len(prop_parsed) :
        LET text == prop_sources[j]
            map == prop_parsed[j]
            Stripped(n) == Strip(text[n])
            Qualifies(n) ==
                /\ Stripped(n) # <<>>
                /\ Head(Stripped(n)) # "#"
                /\ \E p \in 1..Len(Stripped(n)) : Stripped(n)[p] = "="
            FirstEq(n) ==
                CHOOSE p \in 1..Len(Stripped(n)) :
                    /\ Stripped(n)[p] = "="
                    /\ \A q \in 1..(p - 1) : Stripped(n)[q] # "="
            Key(n) == Strip(SubSeq(Stripped(n), 1, FirstEq(n) - 1))
            Value(n) ==
                Strip(SubSeq(Stripped(n), FirstEq(n) + 1, Len(Stripped(n))))
            qualifying == {n \in 1..Len(text) : Qualifies(n)}
        IN /\ \A a, b \in 1..Len(map) : map[a][1] = map[b][1] => a = b
           /\ \A n \in qualifying :
                  \E e \in 1..Len(map) :
                      /\ map[e][1] = Key(n)
                      /\ (\A m \in qualifying : Key(m) = Key(n) => m <= n)
                             => map[e][2] = Value(n)
           /\ \A e \in 1..Len(map) :
                  \E n \in qualifying : map[e][1] = Key(n)
           /\ \A k \in 1..Len(prop_parsed) :
                  prop_sources[k] = text => prop_parsed[k] = map

\* a line with a leading blank and two "=" has been parsed: the key is "a"
\* and the value is the second "="
C24_Witness ==
    /\ Len(prop_parsed) = 1
    /\ prop_sources[1] = << <<" ", "a", "=", "=">> >>
    /\ prop_parsed[1] = << << <<"a">>, <<"=">> >> >>

\* the same text has been parsed twice, with a key set twice in it
C24_WitnessTwice ==
    /\ Len(prop_parsed) = 2
    /\ prop_sources[1] = prop_sources[2]
    /\ prop_parsed[2] = << << <<"a">>, <<"b">> >> >>
    /\ Len(prop_sources[1]) = 2

\* C25: the record get_iflow_content(path) returns does not depend on what
\* earlier calls left on the connection. A connection without history
\* returns iflow_id "unknown" for every file, so independence requires
\* that every record returned for an explicit path carries that iflow_id
\* (refuted: the record copies self.current_iflow_id)
C25_RecordIndependentOfHistory ==
    (pc = "returned" /\ iflow_path # NoPath /\ ret.kind = "result")
        => ret.iflow_id = InitializeResultStructure(NoValue, NoValue).iflow_id

\* ------------------------------------------------------------------ C26
\* C26: when the search has returned and the directory holds at most the
\* scan budget of .iflw files, every .iflw file of the directory is among
\* the returned files, however many .xml files the walk meets before it
\* (refuted: the first pass counts .xml files against the same budget)
C26_IflwFilesSelected ==
    LET iflw == {i \in 1..Len(find_tree) : EndsWithIflw(find_tree[i].name)}
    IN (find_pass = "returned" /\ Cardinality(iflw) <= MaxFilesToScan)
           => \A i \in iflw : InSeq(i, find_files)

\* ------------------------------------------------------------------ C27
\* C27: when a call has processed several definition files into its record
\* and at least one of them parsed and held an error sub-process with an
\* errorEventDefinition, has_proper_error_handling of the returned record
\* is true (refuted: each parsed file overwrites the flag)
C27_ErrorHandlingKeptAcrossFiles ==
    (pc = "returned" /\ ret.kind = "result" /\ ret.error = NoError
        /\ ret.processing_error = NoError
        /\ \E k \in 1..Len(analyzed) :
               /\ ~analyzed[k].regex
               /\ AnalyzedText(k).xml.errorSubprocess)
        => ret.has_proper_error_handling

\* ------------------------------------------------------------------ C28
\* C28: a step that takes a definition file through the regex fallback
\* keeps every adapter, mapping, sender and receiver the record already
\* held (it may add what the bad file shows) and keeps iflow_name unless the
\* bad file shows a name (refuted: adapters_used and mapping_entities are
\* assigned anew)
C28_RegexFallbackKeepsCollected ==
    [][(/\ Len(analyzed') = Len(analyzed) + 1
        /\ analyzed'[Len(analyzed')].regex
        /\ result.kind = "result"
        /\ result'.kind = "result")
       => LET Kept(old, new) == \A i \in 1..Len(old) : InSeq(old[i], new)
              bad == IF analyzed'[Len(analyzed')].file = 0 THEN artifact.text
                     ELSE artifact.entries[analyzed'[Len(analyzed')].file].text
          IN /\ Kept(result.adapters_used, result'.adapters_used)
             /\ Kept(result.mapping_entities, result'.mapping_entities)
             /\ Kept(result.senders, result'.senders)
             /\ Kept(result.receivers, result'.receivers)
             /\ result'.iflow_name \in {result.iflow_name, bad.rx.name}]_vars

\* ------------------------------------------------------------------ C29
\* C29: every returned result record with security_compliant false has a
\* non-empty security_issues (refuted: the record starts non-compliant with
\* no issue and keeps that when no security check runs)
C29_NonCompliantHasIssues ==
    (pc = "returned" /\ ret.kind = "result" /\ ~ret.security_compliant)
        => ret.security_issues # <<>>

\* ------------------------------------------------------------------ C30
\* C30: cancellation is final under every interleaving with the background
\* task: a job for which cancel_job returned True has status cancelled from
\* then on (refuted: update_job of run_review_job overwrites the status)
C30_CancelledStays ==
    \A j \in cancel_ok : jobs[j].status = "cancelled"

====
